---- MODULE Spec2Model ----
(***************************************************************************)
(* A model of the BharatViz Python client (src/server/examples/bharatviz.py)*)
(*                                                                         *)
(* One client object issues map-generation calls.  A call normalizes its   *)
(* input (a row-oriented list of dicts or a pandas DataFrame), validates   *)
(* it, calls requests.post once and then processes the server's reply     *)
(* (status, JSON body, PNG export, decode, save, display, return).  Inside *)
(* requests.post a redirect reply is followed by a further request.  The   *)
(* helpers save_all_formats and compare_scales run such calls and work on  *)
(* their results; from_dict and from_dataframe convert inputs; quick_map   *)
(* and quick_districts_map make a client of their own for one call.        *)
(*                                                                         *)
(* Cell values (state names, numbers) are tokens: natural numbers, of      *)
(* which NullValue stands for Python's None / JSON null.  Byte strings are *)
(* sequences over 0..255 and base64 texts are sequences of alphabet        *)
(* indices 0..63 with Pad standing for '='.                                *)
(***************************************************************************)
EXTENDS Integers, Sequences, FiniteSets, TLC

\* The keys of the dicts, the keyword parameters and the record fields of the
\* model, numbered in alphabetical order.  TLC keeps the fields of a record in
\* the order in which their names first occur in the module: with every name
\* introduced here, a record written with its fields in alphabetical order is
\* in TLC's normal form as written.
FieldNames ==
    [axes |-> 1, basename |-> 2, body |-> 3, bytes |-> 4, caller |-> 5,
     cells |-> 6, code |-> 7, colorScale |-> 8, color_scale |-> 9,
     columns |-> 10, data |-> 11, district |-> 12, error |-> 13,
     exports |-> 14, files |-> 15, format |-> 16, formats |-> 17,
     heap |-> 18, hideStateNames |-> 19, hideValues |-> 20,
     hide_state_names |-> 21, hide_values |-> 22, idx |-> 23, image |-> 24,
     invertColors |-> 25, invert_colors |-> 26, items |-> 27, json |-> 28,
     kind |-> 29, legendTitle |-> 30, legend_title |-> 31, log |-> 32,
     mainTitle |-> 33, mapType |-> 34, map_type |-> 35, max |-> 36,
     message |-> 37, metadata |-> 38, method |-> 39, min |-> 40, ndim |-> 41,
     none |-> 42, note |-> 43, off |-> 44, ok |-> 45, op |-> 46,
     outcome |-> 47, posts |-> 48, recs |-> 49, ref |-> 50, replies |-> 51,
     return_all |-> 52, rows |-> 53, save_path |-> 54, scales |-> 55,
     show |-> 56, showStateBoundaries |-> 57, show_state_boundaries |-> 58,
     shown |-> 59, state |-> 60, state_col |-> 61, success |-> 62,
     timeout |-> 63, title |-> 64, type |-> 65, url |-> 66, value |-> 67,
     value_col |-> 68, work |-> 69]

VARIABLES
    PIL_AVAILABLE,      \* module flag: the image library was imported
    MPL_AVAILABLE,      \* module flag: the plotting library was imported
    api_url,            \* self.api_url
    states_endpoint,    \* self.states_endpoint
    districts_endpoint, \* self.districts_endpoint
    pc,                 \* "idle" | "awaiting" (blocked in requests.post) | "done"
    call,               \* the arguments of the call in progress
    posts,              \* the requests the call in progress has put on the wire
    reply,              \* what requests.post came back with in the call in progress
    outcome,            \* how the call ended: a returned value or a raised error
    files,              \* the files written by the call in progress, as they
                        \* are on disk
    shown,              \* the images displayed by the call in progress
    log,                \* the events of the call in progress, in order
    caller_data,        \* the caller's data object, as the call has left it
    helper              \* save_all_formats / compare_scales in progress: its locals

vars == <<PIL_AVAILABLE, MPL_AVAILABLE, api_url, states_endpoint,
          districts_endpoint, pc, call, posts, reply, outcome, files, shown, log,
          caller_data, helper>>

-----------------------------------------------------------------------------
(* Bounds of the model *)

MaxRows == 2        \* rows of an input list or table
MaxCols == 4        \* columns of an input table
MaxExports == 2     \* entries of a response's exports list
MaxScales == 4      \* scales of a list given to compare_scales
MaxRedirects == 1   \* redirect replies to one call, a helper's inner calls
                    \* counted together, where the server is not one that
                    \* redirects without bound

-----------------------------------------------------------------------------
(* Python values *)

NullValue == 0                  \* None as a cell value
PyNone == "<None>"              \* None where a string is expected
NoValue == [none |-> TRUE]      \* None where an object is expected
NoReply == [kind |-> "none"]    \* requests.post has not come back

\* no helper is running
NoHelper ==
    [axes |-> << >>, basename |-> PyNone, files |-> << >>, idx |-> 0,
     op |-> "none", outcome |-> NoValue, posts |-> << >>, replies |-> << >>,
     scales |-> << >>, shown |-> FALSE]

Range(s) == {s[i] : i \in DOMAIN s}

\* x in seq
Contains(s, x) == \E i \in DOMAIN s : s[i] = x

\* dict.get(key, default)
DictGet(d, key, default) == IF key \in DOMAIN d THEN d[key] ELSE default

\* raise BharatVizError(message); the message is a sequence of text pieces
BharatVizError(message) ==
    [error |-> "BharatVizError", kind |-> "raise", message |-> message]

\* an exception of another class escaping the call
OtherError(class) == [error |-> class, kind |-> "raise", message |-> << >>]

Returned(value) == [kind |-> "return", value |-> value]

COLOR_SCALES ==
    << "spectral", "rdylbu", "rdylgn", "brbg", "piyg", "puor", "blues",
       "greens", "reds", "oranges", "purples", "pinks", "viridis", "plasma",
       "inferno", "magma" >>

valid_map_types == << "LGD", "NFHS5", "NFHS4" >>

-----------------------------------------------------------------------------
(* pandas: a DataFrame is [type |-> "frame", columns, rows]; column labels  *)
(* need not be unique.                                                     *)

RECURSIVE LabelPositions(_, _, _)
\* the positions of label k among columns[from..], ascending
LabelPositions(columns, k, from) ==
    IF from > Len(columns) THEN << >>
    ELSE (IF columns[from] = k THEN << from >> ELSE << >>)
            \o LabelPositions(columns, k, from + 1)

RECURSIVE IndexerPositions(_, _)
\* df[keys]: for each key in turn, every column carrying that label
IndexerPositions(columns, keys) ==
    IF keys = << >> THEN << >>
    ELSE LabelPositions(columns, Head(keys), 1)
            \o IndexerPositions(columns, Tail(keys))

\* mutant: the first Len(keys) columns, taken by position and labelled keys
SelectColumns_ByPosition(df, keys) ==
    [columns |-> keys,
     rows |-> [i \in 1..Len(df.rows) |-> [j \in 1..Len(keys) |-> df.rows[i][j]]],
     type |-> "frame"]

\* df[keys] (every key is a label of df)
SelectColumns(df, keys) ==
    LET idx == IndexerPositions(df.columns, keys)
    IN  [columns |-> [j \in 1..Len(idx) |-> df.columns[idx[j]]],
         rows |-> [i \in 1..Len(df.rows) |->
                      [j \in 1..Len(idx) |-> df.rows[i][idx[j]]]],
         type |-> "frame"]

\* df = df.copy(); df.columns = labels
SetColumns(df, labels) == [df EXCEPT !.columns = labels]

\* dict(zip(columns, row)): a later column with the same label wins
ZipDict(columns, row) ==
    [k \in Range(columns) |->
        row[CHOOSE p \in DOMAIN columns :
                /\ columns[p] = k
                /\ \A q \in DOMAIN columns : columns[q] = k => q <= p]]

\* df.to_dict("records")
ToDictRecords(df) ==
    [i \in 1..Len(df.rows) |-> ZipDict(df.columns, df.rows[i])]

IsDataFrame(data) == data.type = "frame"

-----------------------------------------------------------------------------
(* generate_map / generate_districts_map: normalization and validation     *)

\* lines 171-184: the records of the input, or the error raised
ConvertStatesData(data) ==
    IF IsDataFrame(data)
    THEN IF ~Contains(data.columns, "state") \/ ~Contains(data.columns, "value")
         THEN LET required_cols == << "state", "value" >>
              IN  IF Len(data.columns) >= 2
                  THEN LET renamed == SetColumns(data,
                               required_cols \o SubSeq(data.columns, 3, Len(data.columns)))
                       IN  [data |-> ToDictRecords(SelectColumns(renamed, << "state", "value" >>)),
                            ok |-> TRUE]
                  ELSE [error |-> BharatVizError(
                            << "DataFrame must have 'state' and 'value' columns. Got: " >>
                                \o data.columns),
                        ok |-> FALSE]
         ELSE [data |-> ToDictRecords(SelectColumns(data, << "state", "value" >>)),
               ok |-> TRUE]
    ELSE [data |-> data.recs, ok |-> TRUE]

\* lines 351-364
ConvertDistrictsData(data) ==
    IF IsDataFrame(data)
    THEN LET required_cols == << "state", "district", "value" >>
         IN  IF ~(\A i \in DOMAIN required_cols : Contains(data.columns, required_cols[i]))
             THEN IF Len(data.columns) >= 3
                  THEN LET renamed == SetColumns(data,
                               required_cols \o SubSeq(data.columns, 4, Len(data.columns)))
                       IN  [data |-> ToDictRecords(SelectColumns(renamed, required_cols)),
                            ok |-> TRUE]
                  ELSE [error |-> BharatVizError(
                            << "DataFrame must have 'state', 'district' and 'value' columns. Got: " >>
                                \o data.columns),
                        ok |-> FALSE]
             ELSE [data |-> ToDictRecords(SelectColumns(data, required_cols)),
                   ok |-> TRUE]
    ELSE [data |-> data.recs, ok |-> TRUE]

\* the required column names of a call
RequiredColumns(c) ==
    IF c.op = "generate_districts_map"
    THEN << "state", "district", "value" >>
    ELSE << "state", "value" >>

\* mutant: no copy is made, the working name stays bound to the caller's table
DataFrameCopy_Alias(heap, ref) == [heap |-> heap, ref |-> ref]

\* data = data.copy(): a new object holding what the object named ref holds,
\* and the name it is bound to
DataFrameCopy(heap, ref) ==
    [heap |-> [heap EXCEPT !.work = heap[ref]], ref |-> "work"]

\* lines 177-178 / 358-359 on the objects of the call: the caller's table
\* after the positional renaming
RenameColumns(data, required_cols) ==
    LET copied == DataFrameCopy([caller |-> data, work |-> NoValue], "caller")
        renamed == [copied.heap EXCEPT ![copied.ref] =
                       SetColumns(@, required_cols
                           \o SubSeq(data.columns, Len(required_cols) + 1,
                                     Len(data.columns)))]
    IN  renamed.caller

\* lines 171-184 / 351-364: the caller's data object once the input has been
\* normalized (a list is passed on as it is and only read)
CallerDataAfter(c) ==
    LET required_cols == RequiredColumns(c)
    IN  IF /\ IsDataFrame(c.data)
           /\ ~(\A i \in DOMAIN required_cols :
                    Contains(c.data.columns, required_cols[i]))
           /\ Len(c.data.columns) >= Len(required_cols)
        THEN RenameColumns(c.data, required_cols)
        ELSE c.data

\* "if not data or len(data) == 0"
DataIsEmpty(data) == Len(data) = 0

\* mutant: the color scale is not validated
ColorScaleIsInvalid_Never(color_scale) == FALSE

\* "if color_scale not in self.COLOR_SCALES"
ColorScaleIsInvalid(color_scale) == ~Contains(COLOR_SCALES, color_scale)

\* "if map_type not in valid_map_types"
MapTypeIsInvalid(map_type) == ~Contains(valid_map_types, map_type)

\* lines 170-207: the request body, or the error raised before any request
BuildStatesRequest(c) ==
    LET conv == ConvertStatesData(c.data)
    IN  IF ~conv.ok THEN conv
        ELSE IF DataIsEmpty(conv.data)
        THEN [error |-> BharatVizError(<< "Data cannot be empty" >>), ok |-> FALSE]
        ELSE IF ColorScaleIsInvalid(c.color_scale)
        THEN [error |-> BharatVizError(
                  << "Invalid color scale '", c.color_scale, "'. Choose from: " >>
                      \o COLOR_SCALES),
              ok |-> FALSE]
        ELSE [body |-> [colorScale |-> c.color_scale,
                        data |-> conv.data,
                        formats |-> c.formats,
                        hideStateNames |-> c.hide_state_names,
                        hideValues |-> c.hide_values,
                        invertColors |-> c.invert_colors,
                        legendTitle |-> c.legend_title,
                        mainTitle |-> c.title],
              ok |-> TRUE]

\* lines 350-396
BuildDistrictsRequest(c) ==
    LET conv == ConvertDistrictsData(c.data)
    IN  IF ~conv.ok THEN conv
        ELSE IF DataIsEmpty(conv.data)
        THEN [error |-> BharatVizError(<< "Data cannot be empty" >>), ok |-> FALSE]
        ELSE IF ColorScaleIsInvalid(c.color_scale)
        THEN [error |-> BharatVizError(
                  << "Invalid color scale '", c.color_scale, "'. Choose from: " >>
                      \o COLOR_SCALES),
              ok |-> FALSE]
        ELSE IF MapTypeIsInvalid(c.map_type)
        THEN [error |-> BharatVizError(
                  << "Invalid map_type '", c.map_type, "'. Choose from: " >>
                      \o valid_map_types),
              ok |-> FALSE]
        ELSE [body |-> [colorScale |-> c.color_scale,
                        data |-> conv.data,
                        formats |-> c.formats,
                        hideValues |-> c.hide_values,
                        invertColors |-> c.invert_colors,
                        legendTitle |-> c.legend_title,
                        mainTitle |-> c.title,
                        mapType |-> c.map_type,
                        showStateBoundaries |-> c.show_state_boundaries],
              ok |-> TRUE]

-----------------------------------------------------------------------------
(* base64 and the image library *)

Pad == 64           \* '=' in a base64 text
PngSignature == 137 \* first byte of a file the image library identifies

RECURSIVE B64Encode(_)
\* base64.b64encode, as the server produces an export's data
B64Encode(b) ==
    IF Len(b) = 0 THEN << >>
    ELSE IF Len(b) = 1
    THEN << b[1] \div 4, (b[1] % 4) * 16, Pad, Pad >>
    ELSE IF Len(b) = 2
    THEN << b[1] \div 4, (b[1] % 4) * 16 + b[2] \div 16, (b[2] % 16) * 4, Pad >>
    ELSE << b[1] \div 4, (b[1] % 4) * 16 + b[2] \div 16,
            (b[2] % 16) * 4 + b[3] \div 64, b[3] % 64 >>
            \o B64Encode(SubSeq(b, 4, Len(b)))

RECURSIVE a2b_base64(_, _, _, _, _, _)
\* The decoder behind base64.b64decode(text) (validate=False) on the rest t of
\* a text over the alphabet and '=': quad_pos characters of the current quad
\* have been read, leftchar holds the bits not yet written, pads counts the
\* '=' read since the last character of a quad that is at least half full,
\* bin_data is the output so far.  A '=' that does not complete a quad is
\* skipped.  A '=' that completes the quad ends the decoding when
\* stop_at_pad holds (CPython up to 3.12: the rest of the text is dropped);
\* otherwise it is skipped too and the characters after it go on filling the
\* quad.  binascii.Error when the text ends inside a quad that no padding
\* completes.
a2b_base64(t, stop_at_pad, quad_pos, pads, leftchar, bin_data) ==
    IF t = << >>
    THEN IF quad_pos = 0 \/ (quad_pos >= 2 /\ quad_pos + pads >= 4)
         THEN [bytes |-> bin_data, ok |-> TRUE]
         ELSE [ok |-> FALSE]
    ELSE
    LET this_ch == Head(t) IN
    IF this_ch = Pad
    THEN IF quad_pos >= 2 /\ quad_pos + pads + 1 >= 4 /\ stop_at_pad
         THEN [bytes |-> bin_data, ok |-> TRUE]
         ELSE a2b_base64(Tail(t), stop_at_pad, quad_pos,
                         IF quad_pos >= 2 THEN pads + 1 ELSE pads,
                         leftchar, bin_data)
    ELSE IF quad_pos = 0
    THEN a2b_base64(Tail(t), stop_at_pad, 1, 0, this_ch, bin_data)
    ELSE IF quad_pos = 1
    THEN a2b_base64(Tail(t), stop_at_pad, 2, 0, this_ch % 16,
                    Append(bin_data, leftchar * 4 + this_ch \div 16))
    ELSE IF quad_pos = 2
    THEN a2b_base64(Tail(t), stop_at_pad, 3, 0, this_ch % 4,
                    Append(bin_data, leftchar * 16 + this_ch \div 4))
    ELSE a2b_base64(Tail(t), stop_at_pad, 0, 0, 0,
                    Append(bin_data, leftchar * 64 + this_ch))

\* base64.b64decode(text): the bytes, or binascii.Error.  The interpreters
\* differ on a text that goes on after a completed padding, and stop_at_pad
\* says which of the two decoders runs.
B64Decode(text, stop_at_pad) == a2b_base64(text, stop_at_pad, 0, 0, 0, << >>)

\* Image.open(BytesIO(bytes)): an image holding the bytes, or
\* UnidentifiedImageError when the bytes do not start like an image file
ImageOpen(bytes) ==
    IF Len(bytes) > 0 /\ bytes[1] = PngSignature
    THEN [image |-> [bytes |-> bytes], ok |-> TRUE]
    ELSE [ok |-> FALSE]

-----------------------------------------------------------------------------
(* generate_map / generate_districts_map: the request and the reply        *)

StatesTimeout == 30
DistrictsTimeout == 60

\* requests.post(url, json=body, timeout=timeout): the POST goes on the wire
SendRequest(sent, url, body, timeout) ==
    Append(sent, [json |-> body, method |-> "POST", timeout |-> timeout, url |-> url])

\* the status codes requests.post follows to the reply's Location
\* (allow_redirects is left at its default)
RedirectStatuses == {301, 302, 303, 307, 308}

\* requests.post, still inside the call, on a redirect reply to its last
\* request: a 307 or 308 sends the same request again to the new location,
\* any other redirect sends a GET without body there; the timeout is kept
FollowRedirect(sent, status, location) ==
    LET last == sent[Len(sent)]
    IN  Append(sent,
               IF status \in {307, 308}
               THEN [last EXCEPT !.url = location]
               ELSE [json |-> NoValue, method |-> "GET",
                     timeout |-> last.timeout, url |-> location])

\* the redirects requests.post follows before it gives up
\* (requests.Session.max_redirects)
RedirectLimit == 30

\* mutant: the first export, whatever its format
FindPngExport_First(exports) ==
    IF exports # << >> THEN exports[1] ELSE [none |-> TRUE]

\* mutant: the last png export instead of the first
FindPngExport_Last(exports) ==
    IF \E i \in DOMAIN exports : exports[i].format = "png"
    THEN exports[CHOOSE i \in DOMAIN exports :
                    /\ exports[i].format = "png"
                    /\ \A j \in DOMAIN exports : exports[j].format = "png" => j <= i]
    ELSE [none |-> TRUE]

\* next((e for e in exports if e["format"] == "png"), None)
FindPngExport(exports) ==
    IF \E i \in DOMAIN exports : exports[i].format = "png"
    THEN exports[CHOOSE i \in DOMAIN exports :
                    /\ exports[i].format = "png"
                    /\ \A j \in DOMAIN exports : exports[j].format = "png" => i <= j]
    ELSE NoValue

\* mutant: the server's message is dropped
ErrorMessageOf_Unknown(result) == "Unknown error"

\* result.get("error", {}).get("message", "Unknown error")
ErrorMessageOf(result) ==
    DictGet(DictGet(result, "error", << >>), "message", "Unknown error")

\* "if save_path", "if not png_export": Python truthiness
PathIsGiven(save_path) == save_path # PyNone /\ save_path # ""

\* What a call does once requests.post has come back with reply r:
\* lines 214-271 (and, identically, 405-462); stop_at_pad is the base64
\* decoder of the interpreter.
ProcessResponse(c, r, pil, mpl, stop_at_pad) ==
    LET End(o, f, s, l) == [files |-> f, log |-> l, outcome |-> o, shown |-> s]
        None == << >>
    IN
    IF r.kind \in {"network_error", "too_many_redirects", "http_error"}
    THEN End(BharatVizError(<< "API request failed: ", r.kind >>), None, << >>,
             << "raise" >>)
    ELSE IF r.kind = "not_json"
    THEN End(BharatVizError(<< "Invalid JSON response from API" >>), None, << >>,
             << "parse", "raise" >>)
    ELSE
    LET result == r.body IN
    IF ~DictGet(result, "success", FALSE)
    THEN End(BharatVizError(<< "API error: ", ErrorMessageOf(result) >>),
             None, << >>, << "parse", "success_check", "raise" >>)
    ELSE IF "exports" \notin DOMAIN result
    THEN End(OtherError("KeyError"), None, << >>,
             << "parse", "success_check", "raise" >>)
    ELSE
    LET png_export == FindPngExport(result.exports) IN
    IF png_export = NoValue
    THEN End(BharatVizError(<< "PNG export not found in response" >>), None, << >>,
             << "parse", "success_check", "png_lookup", "raise" >>)
    ELSE IF ~pil
    THEN End(BharatVizError(
                 << "PIL is required to handle images. Install with: pip install pillow" >>),
             None, << >>, << "parse", "success_check", "png_lookup", "raise" >>)
    ELSE
    LET decoded == B64Decode(png_export.data, stop_at_pad) IN
    IF ~decoded.ok
    THEN End(OtherError("binascii.Error"), None, << >>,
             << "parse", "success_check", "png_lookup", "decode", "raise" >>)
    ELSE
    LET opened == ImageOpen(decoded.bytes) IN
    IF ~opened.ok
    THEN End(OtherError("UnidentifiedImageError"), None, << >>,
             << "parse", "success_check", "png_lookup", "decode", "raise" >>)
    ELSE
    LET image == opened.image
        saved == IF PathIsGiven(c.save_path)
                 THEN (c.save_path :> [image |-> image])
                 ELSE None
        l1 == << "parse", "success_check", "png_lookup", "decode" >>
                \o (IF PathIsGiven(c.save_path) THEN << "save" >> ELSE << >>)
    IN
    IF c.show /\ ~mpl
    THEN End(BharatVizError(
                 << "matplotlib is required to display images. Install with: pip install matplotlib" >>),
             saved, << >>, l1 \o << "raise" >>)
    ELSE
    LET displayed == IF c.show
                     THEN << [image |-> image, title |-> c.title] >>
                     ELSE << >>
        l2 == l1 \o (IF c.show THEN << "show" >> ELSE << >>)
    IN
    IF c.return_all
    THEN IF "metadata" \notin DOMAIN result
         THEN End(OtherError("KeyError"), saved, displayed, l2 \o << "raise" >>)
         ELSE End(Returned([exports |-> result.exports,
                            image |-> image,
                            metadata |-> result.metadata]),
                  saved, displayed, l2 \o << "return" >>)
    ELSE End(Returned(image), saved, displayed, l2 \o << "return" >>)

\* lines 478-479: result = self.generate_map(...); return result["metadata"]
MetadataOf(inner) ==
    IF inner.kind = "return" THEN Returned(inner.value.metadata) ELSE inner

-----------------------------------------------------------------------------
(* save_all_formats and compare_scales *)

\* the request of an inner generate_map / generate_districts_map call
InnerRequest(c) ==
    IF c.op = "generate_districts_map"
    THEN BuildDistrictsRequest(c)
    ELSE BuildStatesRequest(c)

\* f"{basename}.{export['format']}", for the basenames BasenameArgs and the
\* formats of the exports
FileName(basename, format) ==
    CASE basename = "map" /\ format = "png" -> "map.png"
      [] basename = "map" /\ format = "svg" -> "map.svg"
      [] basename = "map" /\ format = "pdf" -> "map.pdf"
      [] basename = "out" /\ format = "png" -> "out.png"
      [] basename = "out" /\ format = "svg" -> "out.svg"
      [] basename = "out" /\ format = "pdf" -> "out.pdf"

\* with open(filename, "wb") as f: f.write(file_data)
WriteFile(written, filename, file_data) ==
    [n \in DOMAIN written \cup {filename} |->
        IF n = filename THEN file_data ELSE written[n]]

RECURSIVE WriteExports(_, _, _, _)
\* lines 523-531: the files on disk and how the loop ended
WriteExports(written, basename, exports, stop_at_pad) ==
    IF exports = << >> THEN [files |-> written, outcome |-> Returned(PyNone)]
    ELSE LET export == Head(exports)
             file_data == B64Decode(export.data, stop_at_pad)
         IN  IF ~file_data.ok
             THEN [files |-> written, outcome |-> OtherError("binascii.Error")]
             ELSE WriteExports(
                      WriteFile(written, FileName(basename, export.format),
                                file_data.bytes),
                      basename, Tail(exports), stop_at_pad)

\* the scales compare_scales shows when none are given (line 557)
DefaultScales ==
    << "spectral", "viridis", "plasma", "blues", "reds", "greens" >>

\* scale.title() (line 567): the first letter of a lower-case name in capitals;
\* the names are the 16 of COLOR_SCALES and jet
TitleCase(scale) ==
    CASE scale = "spectral" -> "Spectral"
      [] scale = "rdylbu" -> "Rdylbu"
      [] scale = "rdylgn" -> "Rdylgn"
      [] scale = "brbg" -> "Brbg"
      [] scale = "piyg" -> "Piyg"
      [] scale = "puor" -> "Puor"
      [] scale = "blues" -> "Blues"
      [] scale = "greens" -> "Greens"
      [] scale = "reds" -> "Reds"
      [] scale = "oranges" -> "Oranges"
      [] scale = "purples" -> "Purples"
      [] scale = "pinks" -> "Pinks"
      [] scale = "viridis" -> "Viridis"
      [] scale = "plasma" -> "Plasma"
      [] scale = "inferno" -> "Inferno"
      [] scale = "magma" -> "Magma"
      [] scale = "jet" -> "Jet"

n_cols == 3

\* a fresh Axes: no image, axis decorations on, no title
BlankAxes == [image |-> NoValue, off |-> FALSE, title |-> PyNone, type |-> "axes"]

\* plt.subplots(n_rows, n_cols) with squeeze=True: a single Axes for a 1x1
\* grid, a 1-D array when there is one row or one column, else a 2-D array;
\* ValueError when there is no row
Subplots(rows, cols) ==
    IF rows < 1 \/ cols < 1 THEN [ok |-> FALSE]
    ELSE IF rows = 1 /\ cols = 1 THEN [axes |-> BlankAxes, ok |-> TRUE]
    ELSE IF rows = 1 \/ cols = 1
    THEN [axes |-> [cells |-> [i \in 1..(rows * cols) |-> BlankAxes],
                    ndim |-> 1, type |-> "ndarray"],
          ok |-> TRUE]
    ELSE [axes |-> [cells |-> [i \in 1..rows |-> [j \in 1..cols |-> BlankAxes]],
                    ndim |-> 2, type |-> "ndarray"],
          ok |-> TRUE]

RECURSIVE ConcatRows(_)
ConcatRows(rows) ==
    IF rows = << >> THEN << >> ELSE Head(rows) \o ConcatRows(Tail(rows))

\* ndarray.flatten(): the elements in row-major order
Flatten(array) ==
    IF array.ndim = 2 THEN ConcatRows(array.cells) ELSE array.cells

\* "axes = axes.flatten() if n_scales > 1 else [axes]" (line 564)
AxesList(subplots, n_scales) ==
    IF n_scales > 1 THEN Flatten(subplots) ELSE << subplots >>

\* axes[idx].imshow / .axis / .set_title exist: the element is an Axes
IsAxes(x) == x.type = "axes"

\* lines 569-571 on cell idx
DrawCell(axes, idx, img, scale) ==
    [axes EXCEPT ![idx] =
        [image |-> img, off |-> TRUE, title |-> TitleCase(scale), type |-> "axes"]]

RECURSIVE HideUnused(_, _)
\* lines 574-575: axes[idx].axis("off") for idx in range(n_scales, len(axes)),
\* from the 1-based position `from`; AttributeError is not possible here since
\* the loop is empty whenever the list holds an array
HideUnused(axes, from) ==
    IF from > Len(axes) THEN axes
    ELSE HideUnused([axes EXCEPT ![from].off = TRUE], from + 1)

-----------------------------------------------------------------------------
(* The conversion helpers (static methods) *)

\* df.rename(columns=mapping): every label the mapping knows is replaced
RenameLabels(df, mapping) ==
    [df EXCEPT !.columns =
        [j \in DOMAIN df.columns |->
            IF df.columns[j] \in DOMAIN mapping
            THEN mapping[df.columns[j]]
            ELSE df.columns[j]]]

\* the dict literal {state_col: "state", value_col: "value"}: the later entry
\* replaces the earlier one when the keys are equal
RenameMapping(state_col, value_col) ==
    (value_col :> "value") @@ (state_col :> "state")

\* lines 611-620.  df.columns[i] raises IndexError past the last column and
\* df[[...]] raises KeyError for a name that is no label of df.
from_dataframe(df, state_col, value_col) ==
    IF state_col = PyNone /\ Len(df.columns) < 1 THEN OtherError("IndexError")
    ELSE IF value_col = PyNone /\ Len(df.columns) < 2 THEN OtherError("IndexError")
    ELSE LET sc == IF state_col = PyNone THEN df.columns[1] ELSE state_col
             vc == IF value_col = PyNone THEN df.columns[2] ELSE value_col
         IN  IF ~Contains(df.columns, sc) \/ ~Contains(df.columns, vc)
             THEN OtherError("KeyError")
             ELSE Returned(ToDictRecords(
                      RenameLabels(SelectColumns(df, << sc, vc >>),
                                   RenameMapping(sc, vc))))

\* line 642: [{"state": k, "value": v} for k, v in data.items()]
from_dict(data) ==
    Returned([i \in DOMAIN data.items |->
                 [state |-> data.items[i][1], value |-> data.items[i][2]]])

-----------------------------------------------------------------------------
(* The constructor *)

RECURSIVE RStripSlash(_)
\* api_url.rstrip("/") on a text given as a sequence of pieces
RStripSlash(s) ==
    IF Len(s) > 0 /\ s[Len(s)] = "/" THEN RStripSlash(SubSeq(s, 1, Len(s) - 1)) ELSE s

StatesEndpointOf(url) == url \o << "/api/v1/states/map" >>
DistrictsEndpointOf(url) == url \o << "/api/v1/districts/map" >>

-----------------------------------------------------------------------------
(* Inputs *)

\* the sequences over S of length at most n
SeqsUpTo(S, n) == UNION {[1..k -> S] : k \in 0..n}

\* an optional field of a dict: no entry for {}, the element for a singleton
Field(name, opt) == IF opt = {} THEN << >> ELSE (name :> (CHOOSE x \in opt : TRUE))
Optional(S) == {{}} \cup {{x} : x \in S}

\* records of a row-oriented input: complete ones, one with a null value, one
\* without a value, and ones carrying further keys
RowRecords ==
    { [state |-> 1, value |-> 3],
      [state |-> 1, value |-> NullValue],
      [state |-> 1],
      [note |-> 4, state |-> 1, value |-> 3],
      [district |-> 2, state |-> 1, value |-> 3],
      [district |-> 2, note |-> 4, state |-> 1, value |-> 3] }

RowLists == {[recs |-> recs, type |-> "list"] : recs \in SeqsUpTo(RowRecords, MaxRows)}

ColumnLabels == {"state", "district", "value", "x"}

\* DataFrames of every column layout; the cell of row i, column j holds the
\* token 10*i + j, so that every cell of a table is told apart
DataFrames ==
    {[columns |-> columns,
      rows |-> [i \in 1..n |-> [j \in 1..Len(columns) |-> 10 * i + j]],
      type |-> "frame"]
        : columns \in SeqsUpTo(ColumnLabels, MaxCols), n \in 0..MaxRows}

BuildData == RowLists \cup DataFrames

\* the inputs of the runs that explore the replies
PlainData ==
    { [recs |-> << [state |-> 1, value |-> 3] >>, type |-> "list"],
      [recs |-> << >>, type |-> "list"] }

\* dicts of state names to numbers: the items in insertion order, keys distinct
Dicts ==
    {[items |-> it, type |-> "dict"] :
        it \in {s \in SeqsUpTo({1, 2, 5} \X {3, 4}, MaxRows) :
                    \A i, j \in DOMAIN s : s[i][1] = s[j][1] => i = j}}

\* the column-name arguments of from_dataframe
ColumnArgs == {PyNone, "state", "x"}

ColorScaleArgs == {"spectral", "magma", "jet"}
MapTypeArgs == {"LGD", "NFHS4", "lgd"}
FormatArgs == { << "png" >>, << "svg" >>, << "png", "svg", "pdf" >> }
SavePathArgs == {PyNone, "map.png"}

\* generate_map(data, color_scale=, formats=, show=, save_path=, return_all=),
\* the other parameters at their defaults (lines 96-127)
StatesCall(data, color_scale, formats, show, save_path, return_all) ==
    [color_scale |-> color_scale, data |-> data, formats |-> formats,
     hide_state_names |-> FALSE, hide_values |-> FALSE,
     invert_colors |-> FALSE, legend_title |-> "Values",
     map_type |-> PyNone, op |-> "generate_map", return_all |-> return_all,
     save_path |-> save_path, show |-> show, show_state_boundaries |-> TRUE,
     title |-> "BharatViz"]

\* generate_districts_map(data, map_type=, color_scale=, ...) (lines 273-305)
DistrictsCall(data, map_type, color_scale, formats, show, save_path, return_all) ==
    [color_scale |-> color_scale, data |-> data, formats |-> formats,
     hide_state_names |-> FALSE, hide_values |-> FALSE,
     invert_colors |-> FALSE, legend_title |-> "Values",
     map_type |-> map_type, op |-> "generate_districts_map", return_all |-> return_all,
     save_path |-> save_path, show |-> show, show_state_boundaries |-> TRUE,
     title |-> "BharatViz Districts"]

\* quick_map(data, color_scale=, save_path=): generate_map(data, title="India
\* Map", legend_title="Values", color_scale=, show=True, save_path=)
\* (lines 737-744)
QuickMapCall(data, color_scale, save_path) ==
    [color_scale |-> color_scale, data |-> data, formats |-> << "png" >>,
     hide_state_names |-> FALSE, hide_values |-> FALSE,
     invert_colors |-> FALSE, legend_title |-> "Values",
     map_type |-> PyNone, op |-> "generate_map", return_all |-> FALSE,
     save_path |-> save_path, show |-> TRUE, show_state_boundaries |-> TRUE,
     title |-> "India Map"]

\* quick_districts_map(data, color_scale=, map_type=, save_path=):
\* generate_districts_map(data, title="India Districts Map", ..., show=True,
\* save_path=) (lines 787-795)
QuickDistrictsMapCall(data, map_type, color_scale, save_path) ==
    [color_scale |-> color_scale, data |-> data, formats |-> << "png" >>,
     hide_state_names |-> FALSE, hide_values |-> FALSE,
     invert_colors |-> FALSE, legend_title |-> "Values",
     map_type |-> map_type, op |-> "generate_districts_map", return_all |-> FALSE,
     save_path |-> save_path, show |-> TRUE, show_state_boundaries |-> TRUE,
     title |-> "India Districts Map"]

\* get_metadata(data): generate_map(data, formats=["svg"], return_all=True)
MetadataCall(data) ==
    [color_scale |-> "spectral", data |-> data, formats |-> << "svg" >>,
     hide_state_names |-> FALSE, hide_values |-> FALSE,
     invert_colors |-> FALSE, legend_title |-> "Values",
     map_type |-> PyNone, op |-> "get_metadata", return_all |-> TRUE,
     save_path |-> PyNone, show |-> FALSE, show_state_boundaries |-> TRUE,
     title |-> "BharatViz"]

\* byte strings a server may send: image files of 1, 2 and 4 bytes, and
\* three bytes that are no image
ImageBytes == { << 137 >>, << 137, 80 >>, << 137, 80, 78, 71 >> }
OtherBytes == { << 71, 73, 70 >> }

\* a text that is no base64 text (one character)
BrokenText == << 16 >>

\* a text that goes on after its padding: two encoded images, one after the
\* other
DoubledText == B64Encode(<< 137 >>) \o B64Encode(<< 137 >>)

ExportEntries ==
    {[data |-> B64Encode(b), format |-> "png"] : b \in ImageBytes \cup OtherBytes}
        \cup {[data |-> BrokenText, format |-> "png"]}
        \cup {[data |-> DoubledText, format |-> "png"]}
        \cup {[data |-> B64Encode(<< 60 >>), format |-> f] : f \in {"svg", "pdf"}}

MetadataObjects == {[max |-> 2, min |-> 1]}
ErrorObjects == {[message |-> "bad state name"], [code |-> "E1"]}

\* the parsed bodies of the response contract:
\* {success, exports?, metadata?, error?}, and bodies without success
JsonBodies ==
    {Field("error", e) @@ Field("success", s)
        : s \in Optional({FALSE}), e \in Optional(ErrorObjects)}
    \cup
    {Field("exports", x) @@ Field("metadata", m) @@ [success |-> TRUE]
        : x \in Optional(SeqsUpTo(ExportEntries, MaxExports)),
          m \in Optional(MetadataObjects)}

\* what requests.post / raise_for_status / response.json can come back with
Replies ==
    {[kind |-> "network_error"], [kind |-> "http_error"], [kind |-> "not_json"]}
        \cup {[body |-> b, kind |-> "json"] : b \in JsonBodies}

\* a few replies for the runs that explore the inputs
PlainReplies ==
    {[kind |-> "network_error"],
     [body |-> [success |-> FALSE], kind |-> "json"],
     [body |-> [exports |-> << [data |-> B64Encode(<< 137, 80 >>), format |-> "png"] >>,
                metadata |-> [max |-> 2, min |-> 1],
                success |-> TRUE],
      kind |-> "json"]}

\* compare_scales: lists of at most MaxScales scales, and no list
ScalesArgs ==
    {NoValue} \cup
    {[scales |-> l] : l \in SeqsUpTo({"spectral", "magma", "jet"}, MaxScales)}

BasenameArgs == {"map", "out"}
MapKindArgs == {"states", "districts"}

\* the success replies of the runs that explore the helpers: the three
\* formats in two orders, a png missing or doubled, a second png that is no
\* base64 text, with and without metadata
HelperExports ==
    { << [data |-> B64Encode(<< 137, 80 >>), format |-> "png"],
         [data |-> B64Encode(<< 60 >>), format |-> "svg"],
         [data |-> B64Encode(<< 37, 80, 68 >>), format |-> "pdf"] >>,
      << [data |-> B64Encode(<< 37, 80, 68 >>), format |-> "pdf"],
         [data |-> B64Encode(<< 60 >>), format |-> "svg"],
         [data |-> B64Encode(<< 137 >>), format |-> "png"] >>,
      << [data |-> B64Encode(<< 60 >>), format |-> "svg"],
         [data |-> B64Encode(<< 37, 80, 68 >>), format |-> "pdf"] >>,
      << [data |-> B64Encode(<< 137 >>), format |-> "png"],
         [data |-> B64Encode(<< 137, 80 >>), format |-> "png"] >>,
      << [data |-> B64Encode(<< 137 >>), format |-> "png"],
         [data |-> BrokenText, format |-> "svg"] >> }

SaveReplies ==
    {[kind |-> "network_error"],
     [body |-> [error |-> [message |-> "bad state name"], success |-> FALSE],
      kind |-> "json"]}
    \cup {[body |-> Field("exports", {x}) @@ Field("metadata", m) @@ [success |-> TRUE],
           kind |-> "json"]
            : x \in HelperExports, m \in Optional(MetadataObjects)}

\* the replies to the calls of compare_scales: a failure and two images
CompareReplies ==
    {[kind |-> "network_error"]}
    \cup {[body |-> [exports |-> << [data |-> B64Encode(b), format |-> "png"] >>,
                     success |-> TRUE],
           kind |-> "json"]
            : b \in {<< 137 >>, << 137, 80 >>}}

\* where the redirect replies point: a URL that is none of the client's
MirrorUrl == << "http://mirror.example", "/api/v1/map" >>

\* what requests.post can come back with once the requests sent are on the
\* wire: the replies, and TooManyRedirects (a RequestException) when the
\* server redirects the request that followed the last redirect allowed
RepliesAfter(sent, replies) ==
    replies \cup (IF Len(sent) = RedirectLimit + 1
                  THEN {[kind |-> "too_many_redirects"]}
                  ELSE {})

ApiUrlArgs ==
    { << "http://bharatviz.saketlab.in" >>,
      << "http://bharatviz.saketlab.in", "/" >>,
      << "http://bharatviz.saketlab.in", "/", "/" >> }

-----------------------------------------------------------------------------
(* The state machine *)

\* module import (lines 38-52) and BharatViz.__init__ (lines 91-94)
Init ==
    /\ PIL_AVAILABLE \in BOOLEAN
    /\ MPL_AVAILABLE \in BOOLEAN
    /\ \E url \in ApiUrlArgs :
        /\ api_url = RStripSlash(url)
        /\ states_endpoint = StatesEndpointOf(RStripSlash(url))
        /\ districts_endpoint = DistrictsEndpointOf(RStripSlash(url))
    /\ pc = "idle"
    /\ call = NoValue
    /\ posts = << >>
    /\ reply = NoReply
    /\ outcome = NoValue
    /\ files = << >>
    /\ shown = << >>
    /\ log = << >>
    /\ caller_data = NoValue
    /\ helper = NoHelper

\* mutant: the call keeps the endpoint it used as the client's base URL
Begin_StoresEndpoint(c, built, url, timeout) ==
    /\ pc = "idle"
    /\ call' = c
    /\ caller_data' = CallerDataAfter(c)
    /\ api_url' = url
    /\ IF built.ok
       THEN /\ posts' = SendRequest(posts, url, built.body, timeout)
            /\ pc' = "awaiting"
            /\ outcome' = NoValue
            /\ log' = << "validate", "post" >>
       ELSE /\ posts' = posts
            /\ pc' = "done"
            /\ outcome' = built.error
            /\ log' = << "validate", "raise" >>
    /\ UNCHANGED <<PIL_AVAILABLE, MPL_AVAILABLE, states_endpoint,
                   districts_endpoint, reply, files, shown, helper>>

\* the call starts: normalization, validation and, when they pass, the POST
Begin(c, built, url, timeout) ==
    /\ pc = "idle"
    /\ call' = c
    /\ caller_data' = CallerDataAfter(c)
    /\ IF built.ok
       THEN /\ posts' = SendRequest(posts, url, built.body, timeout)
            /\ pc' = "awaiting"
            /\ outcome' = NoValue
            /\ log' = << "validate", "post" >>
       ELSE /\ posts' = posts
            /\ pc' = "done"
            /\ outcome' = built.error
            /\ log' = << "validate", "raise" >>
    /\ UNCHANGED <<PIL_AVAILABLE, MPL_AVAILABLE, api_url, states_endpoint,
                   districts_endpoint, reply, files, shown, helper>>

\* generate_map up to requests.post (lines 170-213)
GenerateMap(c) ==
    Begin(c, BuildStatesRequest(c), states_endpoint, StatesTimeout)

\* generate_districts_map up to requests.post (lines 350-404)
GenerateDistrictsMap(c) ==
    Begin(c, BuildDistrictsRequest(c), districts_endpoint, DistrictsTimeout)

\* get_metadata up to requests.post (line 478)
GetMetadata(data) ==
    Begin(MetadataCall(data), BuildStatesRequest(MetadataCall(data)),
          states_endpoint, StatesTimeout)

\* quick_map (lines 736-744): a client made for this call, then generate_map
QuickMap(data, color_scale, save_path, url) ==
    LET c == QuickMapCall(data, color_scale, save_path)
    IN  Begin(c, BuildStatesRequest(c), StatesEndpointOf(RStripSlash(url)),
              StatesTimeout)

\* quick_districts_map (lines 786-795): a client made for this call, then
\* generate_districts_map
QuickDistrictsMap(data, map_type, color_scale, save_path, url) ==
    LET c == QuickDistrictsMapCall(data, map_type, color_scale, save_path)
    IN  Begin(c, BuildDistrictsRequest(c), DistrictsEndpointOf(RStripSlash(url)),
              DistrictsTimeout)

\* the call is blocked in requests.post, its own or the one of the inner call
\* of a helper
InRequest == pc \in {"awaiting", "helper_awaiting"}

\* the redirects followed so far in the call, the inner calls of a helper
\* counted together: the requests sent beyond one per requests.post
RedirectsFollowed ==
    IF pc = "helper_awaiting"
    THEN Len(helper.posts) - (IF helper.op = "compare_scales" THEN helper.idx ELSE 1)
    ELSE Len(posts) - 1

\* the server of the model redirects at most MaxRedirects times in a call
FewRedirects == RedirectsFollowed < MaxRedirects

\* the server answers the last request with a redirect and requests.post,
\* which the call is blocked in, sends the next request, the RedirectLimit
\* redirects it follows not yet used up; the call itself takes no step
Redirect(status, location) ==
    /\ InRequest
    /\ Len(posts) <= RedirectLimit
    /\ posts' = FollowRedirect(posts, status, location)
    /\ helper' = IF pc = "helper_awaiting"
                 THEN [helper EXCEPT !.posts = FollowRedirect(@, status, location)]
                 ELSE helper
    /\ UNCHANGED <<PIL_AVAILABLE, MPL_AVAILABLE, api_url, states_endpoint,
                   districts_endpoint, pc, call, reply, outcome, files, shown,
                   log, caller_data>>

\* requests.post comes back with r and the call runs to its end
Respond(r) ==
    /\ pc = "awaiting"
    /\ \E stop_at_pad \in BOOLEAN :
         LET res == ProcessResponse(call, r, PIL_AVAILABLE, MPL_AVAILABLE,
                                    stop_at_pad)
         IN  /\ outcome' = IF call.op = "get_metadata"
                           THEN MetadataOf(res.outcome)
                           ELSE res.outcome
             /\ files' = res.files
             /\ shown' = res.shown
             /\ log' = log \o res.log
    /\ reply' = r
    /\ pc' = "done"
    /\ UNCHANGED <<PIL_AVAILABLE, MPL_AVAILABLE, api_url, states_endpoint,
                   districts_endpoint, call, posts, caller_data, helper>>

\* the caller has the result; the client is ready for the next call
Return ==
    /\ pc = "done"
    /\ pc' = "idle"
    /\ call' = NoValue
    /\ posts' = << >>
    /\ reply' = NoReply
    /\ outcome' = NoValue
    /\ files' = << >>
    /\ shown' = << >>
    /\ log' = << >>
    /\ caller_data' = NoValue
    /\ helper' = NoHelper
    /\ UNCHANGED <<PIL_AVAILABLE, MPL_AVAILABLE, api_url, states_endpoint,
                   districts_endpoint>>

\* calls on plain inputs, every reply, redirects among them
Next ==
    \/ /\ pc = "idle"
       /\ \E d \in PlainData, cs \in {"spectral", "jet"}, f \in FormatArgs,
             sh \in BOOLEAN, sp \in SavePathArgs, ra \in BOOLEAN :
               GenerateMap(StatesCall(d, cs, f, sh, sp, ra))
    \/ /\ pc = "idle"
       /\ \E d \in PlainData, mt \in {"LGD", "lgd"}, f \in FormatArgs,
             sh \in BOOLEAN, sp \in SavePathArgs, ra \in BOOLEAN :
               GenerateDistrictsMap(DistrictsCall(d, mt, "spectral", f, sh, sp, ra))
    \/ /\ pc = "idle"
       /\ \E d \in PlainData : GetMetadata(d)
    \/ /\ pc = "idle"
       /\ \E d \in PlainData, cs \in {"spectral", "jet"}, sp \in SavePathArgs,
             url \in ApiUrlArgs :
               QuickMap(d, cs, sp, url)
    \/ /\ pc = "idle"
       /\ \E d \in PlainData, mt \in {"LGD", "lgd"}, sp \in SavePathArgs,
             url \in ApiUrlArgs :
               QuickDistrictsMap(d, mt, "spectral", sp, url)
    \/ /\ pc = "awaiting"
       /\ FewRedirects
       /\ \E status \in RedirectStatuses : Redirect(status, MirrorUrl)
    \/ /\ pc = "awaiting"
       /\ \E r \in RepliesAfter(posts, Replies) : Respond(r)
    \/ Return

Spec == Init /\ [][Next]_vars

\* calls on every input, a few replies, re-sent POSTs among them
NextBuild ==
    \/ /\ pc = "idle"
       /\ \E d \in BuildData, cs \in ColorScaleArgs :
               GenerateMap(StatesCall(d, cs, << "png" >>, FALSE, PyNone, FALSE))
    \/ /\ pc = "idle"
       /\ \E d \in BuildData, mt \in MapTypeArgs, cs \in ColorScaleArgs :
               GenerateDistrictsMap(
                   DistrictsCall(d, mt, cs, << "png" >>, FALSE, PyNone, FALSE))
    \/ /\ pc = "idle"
       /\ \E d \in BuildData : GetMetadata(d)
    \/ /\ pc = "idle"
       /\ \E d \in BuildData, url \in ApiUrlArgs :
               QuickMap(d, "spectral", PyNone, url)
    \/ /\ pc = "idle"
       /\ \E d \in BuildData, mt \in MapTypeArgs, url \in ApiUrlArgs :
               QuickDistrictsMap(d, mt, "spectral", PyNone, url)
    \/ /\ pc = "awaiting"
       /\ FewRedirects
       /\ \E status \in {307, 308} : Redirect(status, MirrorUrl)
    \/ /\ pc = "awaiting"
       /\ \E r \in RepliesAfter(posts, PlainReplies) : Respond(r)
    \/ Return

SpecBuild == Init /\ [][NextBuild]_vars

\* a helper with locals h starts the inner call c: normalization, validation
\* and, when they pass, the POST; a failure ends the helper
HelperBegin(c, h) ==
    LET built == InnerRequest(c)
        url == IF c.op = "generate_districts_map"
               THEN districts_endpoint ELSE states_endpoint
        timeout == IF c.op = "generate_districts_map"
                   THEN DistrictsTimeout ELSE StatesTimeout
    IN  /\ call' = c
        /\ caller_data' = CallerDataAfter(c)
        /\ IF built.ok
           THEN /\ posts' = SendRequest(<< >>, url, built.body, timeout)
                /\ helper' = [h EXCEPT
                       !.posts = SendRequest(h.posts, url, built.body, timeout)]
                /\ pc' = "helper_awaiting"
                /\ outcome' = NoValue
                /\ log' = << "validate", "post" >>
           ELSE /\ posts' = << >>
                /\ helper' = [h EXCEPT !.outcome = built.error]
                /\ pc' = "done"
                /\ outcome' = built.error
                /\ log' = << "validate", "raise" >>
        /\ reply' = NoReply
        /\ files' = << >>
        /\ shown' = << >>
        /\ UNCHANGED <<PIL_AVAILABLE, MPL_AVAILABLE, api_url, states_endpoint,
                       districts_endpoint>>

\* the inner call of a helper ends with result res on reply r, and the helper
\* ends with locals h
HelperEnd(r, res, h) ==
    /\ outcome' = res.outcome
    /\ files' = res.files
    /\ shown' = res.shown
    /\ log' = log \o res.log
    /\ reply' = r
    /\ helper' = h
    /\ pc' = "done"
    /\ UNCHANGED <<PIL_AVAILABLE, MPL_AVAILABLE, api_url, states_endpoint,
                   districts_endpoint, call, posts, caller_data>>

\* save_all_formats(data, basename, map_type, **kwargs) up to requests.post
\* (lines 514-521); kwargs carries show and save_path
SaveAllFormats(data, basename, map_type, show, save_path) ==
    /\ pc = "idle"
    /\ HelperBegin(
          IF map_type = "districts"
          THEN DistrictsCall(data, "LGD", "spectral", << "png", "svg", "pdf" >>,
                             show, save_path, TRUE)
          ELSE StatesCall(data, "spectral", << "png", "svg", "pdf" >>,
                          show, save_path, TRUE),
          [NoHelper EXCEPT !.basename = basename, !.op = "save_all_formats"])

\* the files of the inner call once the loop of save_all_formats has written
\* its own: a file of the loop replaces the one image.save wrote under the
\* same name (lines 245, 527-528)
Overwritten(saved, written) ==
    [n \in DOMAIN saved |-> IF n \in DOMAIN written THEN written[n] ELSE saved[n]]

\* save_all_formats once requests.post has come back (lines 214-271, 523-531)
SaveAllFormatsRespond(r) ==
    /\ pc = "helper_awaiting"
    /\ helper.op = "save_all_formats"
    /\ \E stop_at_pad \in BOOLEAN :
         LET res == ProcessResponse(call, r, PIL_AVAILABLE, MPL_AVAILABLE,
                                    stop_at_pad)
             h == [helper EXCEPT !.replies = Append(@, r)]
         IN  IF res.outcome.kind = "raise"
             THEN HelperEnd(r, res, [h EXCEPT !.outcome = res.outcome])
             ELSE LET result == res.outcome.value
                      written == WriteExports(<< >>, helper.basename,
                                              result.exports, stop_at_pad)
                  IN  HelperEnd(r,
                                [res EXCEPT !.files = Overwritten(@, written.files)],
                                [h EXCEPT !.files = written.files,
                                          !.outcome = written.outcome])

\* generate_map(data, color_scale=scale, title=scale.title()) (line 567)
ScaleCall(data, scale) ==
    [StatesCall(data, scale, << "png" >>, FALSE, PyNone, FALSE)
        EXCEPT !.title = TitleCase(scale)]

\* mutant: compare_scales does not look at the plotting flag
PlottingMissing_Never(mpl) == FALSE

\* "if not MPL_AVAILABLE" (line 551)
PlottingMissing(mpl) == ~mpl

\* compare_scales(data, scales) up to the first requests.post (lines 551-567);
\* given is NoValue for scales=None and [scales |-> list] for a list
CompareScales(data, given) ==
    /\ pc = "idle"
    /\ LET h0 == [NoHelper EXCEPT !.op = "compare_scales"]
           Fail(error) ==
               /\ helper' = [h0 EXCEPT !.outcome = error]
               /\ call' = [data |-> data, op |-> "compare_scales"]
               /\ caller_data' = data
               /\ pc' = "done"
               /\ UNCHANGED <<PIL_AVAILABLE, MPL_AVAILABLE, api_url,
                              states_endpoint, districts_endpoint, posts, reply,
                              outcome, files, shown, log>>
       IN  IF PlottingMissing(MPL_AVAILABLE)
           THEN Fail(BharatVizError(
                    << "matplotlib is required. Install with: pip install matplotlib" >>))
           ELSE LET scales == IF given = NoValue THEN DefaultScales ELSE given.scales
                    n_scales == Len(scales)
                    n_rows == (n_scales + n_cols - 1) \div n_cols
                    subplots == Subplots(n_rows, n_cols)
                IN  IF ~subplots.ok
                    THEN Fail(OtherError("ValueError"))
                    ELSE HelperBegin(
                             ScaleCall(data, scales[1]),
                             [h0 EXCEPT !.axes = AxesList(subplots.axes, n_scales),
                                        !.idx = 1,
                                        !.scales = scales])

\* compare_scales once a requests.post has come back: the rest of the inner
\* call (lines 214-271), the rest of the loop body (569-571) and then the next
\* inner call up to its requests.post or, after the last scale, lines 574-578
CompareScalesRespond(r) ==
    /\ pc = "helper_awaiting"
    /\ helper.op = "compare_scales"
    /\ \E stop_at_pad \in BOOLEAN :
         LET res == ProcessResponse(call, r, PIL_AVAILABLE, MPL_AVAILABLE,
                                    stop_at_pad)
             h == [helper EXCEPT !.replies = Append(@, r)]
         IN  IF res.outcome.kind = "raise"
             THEN HelperEnd(r, res, [h EXCEPT !.outcome = res.outcome])
             ELSE IF ~IsAxes(h.axes[h.idx])
             THEN HelperEnd(r, res, [h EXCEPT !.outcome = OtherError("AttributeError")])
             ELSE LET drawn == DrawCell(h.axes, h.idx, res.outcome.value,
                                        h.scales[h.idx])
                  IN  IF h.idx < Len(h.scales)
                      THEN HelperBegin(ScaleCall(call.data, h.scales[h.idx + 1]),
                                       [h EXCEPT !.axes = drawn, !.idx = h.idx + 1])
                      ELSE HelperEnd(r, res,
                               [h EXCEPT !.axes = HideUnused(drawn, Len(h.scales) + 1),
                                         !.outcome = Returned(PyNone),
                                         !.shown = TRUE])

\* a static conversion helper runs from call to result in one step
Convert(c, result) ==
    /\ pc = "idle"
    /\ call' = c
    /\ caller_data' = c.data
    /\ outcome' = result
    /\ pc' = "done"
    /\ UNCHANGED <<PIL_AVAILABLE, MPL_AVAILABLE, api_url, states_endpoint,
                   districts_endpoint, posts, reply, files, shown, log, helper>>

\* BharatViz.from_dict(data)
FromDict(data) ==
    Convert([data |-> data, op |-> "from_dict"], from_dict(data))

\* BharatViz.from_dataframe(df, state_col, value_col)
FromDataframe(df, state_col, value_col) ==
    Convert([data |-> df, op |-> "from_dataframe", state_col |-> state_col,
             value_col |-> value_col],
            from_dataframe(df, state_col, value_col))

\* every method of the client: the map methods on plain inputs with every
\* reply, the helpers with the replies that tell their cases apart
NextHelpers ==
    \/ /\ pc = "idle"
       /\ \E d \in PlainData, cs \in {"spectral", "jet"}, f \in FormatArgs,
             sh \in BOOLEAN, sp \in SavePathArgs, ra \in BOOLEAN :
               GenerateMap(StatesCall(d, cs, f, sh, sp, ra))
    \/ /\ pc = "idle"
       /\ \E d \in PlainData, mt \in {"LGD", "lgd"}, f \in FormatArgs,
             sh \in BOOLEAN, sp \in SavePathArgs, ra \in BOOLEAN :
               GenerateDistrictsMap(DistrictsCall(d, mt, "spectral", f, sh, sp, ra))
    \/ /\ pc = "idle"
       /\ \E d \in PlainData : GetMetadata(d)
    \/ /\ pc = "idle"
       /\ \E d \in PlainData, b \in BasenameArgs, k \in MapKindArgs,
             sh \in BOOLEAN, sp \in SavePathArgs :
               SaveAllFormats(d, b, k, sh, sp)
    \/ /\ pc = "idle"
       /\ \E d \in PlainData, given \in ScalesArgs : CompareScales(d, given)
    \/ /\ InRequest
       /\ FewRedirects
       /\ \E status \in RedirectStatuses : Redirect(status, MirrorUrl)
    \/ /\ pc = "awaiting"
       /\ \E r \in RepliesAfter(posts, Replies) : Respond(r)
    \/ /\ pc = "helper_awaiting"
       /\ \E r \in RepliesAfter(posts, SaveReplies) : SaveAllFormatsRespond(r)
    \/ /\ pc = "helper_awaiting"
       /\ \E r \in RepliesAfter(posts, CompareReplies) : CompareScalesRespond(r)
    \/ Return

SpecHelpers == Init /\ [][NextHelpers]_vars

\* a server that redirects as often as it likes, any status each time: the map
\* methods and save_all_formats on a few inputs, requests.post following up to
\* RedirectLimit redirects one by one
NextRedirects ==
    \/ /\ pc = "idle"
       /\ \E d \in PlainData, sp \in SavePathArgs :
               GenerateMap(StatesCall(d, "spectral", << "png" >>, FALSE, sp, FALSE))
    \/ /\ pc = "idle"
       /\ \E d \in PlainData :
               GenerateDistrictsMap(
                   DistrictsCall(d, "LGD", "spectral", << "png" >>, FALSE, PyNone,
                                 FALSE))
    \/ /\ pc = "idle"
       /\ \E d \in PlainData, b \in BasenameArgs, sp \in SavePathArgs :
               SaveAllFormats(d, b, "states", FALSE, sp)
    \/ /\ InRequest
       /\ \E status \in RedirectStatuses : Redirect(status, MirrorUrl)
    \/ /\ pc = "awaiting"
       /\ \E r \in RepliesAfter(posts, PlainReplies) : Respond(r)
    \/ /\ pc = "helper_awaiting"
       /\ \E r \in RepliesAfter(posts, PlainReplies) : SaveAllFormatsRespond(r)
    \/ Return

SpecRedirects == Init /\ [][NextRedirects]_vars

\* the conversion helpers on every input
NextConvert ==
    \/ /\ pc = "idle"
       /\ \E d \in Dicts : FromDict(d)
    \/ /\ pc = "idle"
       /\ \E df \in DataFrames, sc \in ColumnArgs, vc \in ColumnArgs :
               FromDataframe(df, sc, vc)
    \/ Return

SpecConvert == Init /\ [][NextConvert]_vars

-----------------------------------------------------------------------------
(* Properties *)

\* the color scales and map types of the interface description
AllowedColorScales ==
    { "spectral", "rdylbu", "rdylgn", "brbg", "piyg", "puor", "blues", "greens",
      "reds", "oranges", "purples", "pinks", "viridis", "plasma", "inferno",
      "magma" }
AllowedMapTypes == {"LGD", "NFHS5", "NFHS4"}

\* a generate_map or generate_districts_map call is in progress or has ended
InMapCall == pc # "idle" /\ call.op \in {"generate_map", "generate_districts_map"}

\* the keys of a record of the request: state, value or state, district, value
RequiredKeys(c) ==
    IF c.op = "generate_districts_map"
    THEN << "state", "district", "value" >>
    ELSE << "state", "value" >>

\* the table is too narrow to be reinterpreted by position
TooFewColumns(c) ==
    /\ c.data.type = "frame"
    /\ Len(c.data.columns) < Len(RequiredKeys(c))
    /\ ~(Range(RequiredKeys(c)) \subseteq Range(c.data.columns))

\* the arguments of call c fail validation
FailsValidation(c) ==
    \/ TooFewColumns(c)
    \/ c.data.type = "list" /\ c.data.recs = << >>
    \/ c.data.type = "frame" /\ c.data.rows = << >>
    \/ c.color_scale \notin AllowedColorScales
    \/ c.op = "generate_districts_map" /\ c.map_type \notin AllowedMapTypes

RaisedBharatVizError == outcome.kind = "raise" /\ outcome.error = "BharatVizError"

\* C1: a generate_map or generate_districts_map call whose arguments fail
\* validation (no records, color scale outside the 16 names, map type outside
\* LGD/NFHS5/NFHS4, table with too few columns) ends in BharatVizError with no
\* POST issued, no file written and nothing displayed; for a table with too few
\* columns the message names the columns found.
C1_ValidationFailureRaisesBeforePost ==
    (InMapCall /\ FailsValidation(call)) =>
        /\ pc = "done"
        /\ RaisedBharatVizError
        /\ posts = << >>
        /\ files = << >>
        /\ shown = << >>
        /\ TooFewColumns(call) => Range(call.data.columns) \subseteq Range(outcome.message)

\* a districts call on a two-column table has ended
C1_Witness ==
    /\ InMapCall
    /\ pc = "done"
    /\ call.op = "generate_districts_map"
    /\ call.data.type = "frame"
    /\ call.data.columns = << "state", "value" >>
    /\ call.data.rows # << >>
    /\ outcome.kind = "raise"

\* C2 (as claimed): every record of every POSTed body carries a non-null value.
C2_PostedValuesNonNull ==
    \A i \in {k \in DOMAIN posts : posts[k].method = "POST"} :
        \A j \in DOMAIN posts[i].json.data :
            /\ "value" \in DOMAIN posts[i].json.data[j]
            /\ posts[i].json.data[j].value # NullValue

\* the POSTs among the requests of the call in progress
PostsOnWire == {i \in DOMAIN posts : posts[i].method = "POST"}

\* C3 (as claimed): a generate_map or generate_districts_map call whose
\* arguments pass validation has issued exactly one POST from the moment it
\* blocks in requests.post to its end, whatever the server answers; no call
\* ever issues a second POST.
C3_ExactlyOnePost ==
    /\ Cardinality(PostsOnWire) <= 1
    /\ (InMapCall /\ ~FailsValidation(call)) => Cardinality(PostsOnWire) = 1

\* the body follows the response contract: success is present, and every
\* export carries the base64 text of an image file
ContractBody(b) ==
    /\ "success" \in DOMAIN b
    /\ "exports" \in DOMAIN b =>
          \A i \in DOMAIN b.exports :
              \E bytes \in ImageBytes \cup {<< 60 >>} :
                  b.exports[i].data = B64Encode(bytes)
    /\ "error" \in DOMAIN b => "message" \in DOMAIN b.error

\* C4 (as claimed): whatever the transport outcome and whatever body of the
\* response contract is received, a failing call fails with BharatVizError.
C4_EveryFailureIsBharatVizError ==
    (/\ InMapCall
     /\ pc = "done"
     /\ outcome.kind = "raise"
     /\ reply.kind = "json" => ContractBody(reply.body))
        => outcome.error = "BharatVizError"

\* the reply is a parsed body with success true and an exports list
SuccessWithExports ==
    /\ pc = "done"
    /\ reply.kind = "json"
    /\ "success" \in DOMAIN reply.body
    /\ reply.body.success
    /\ "exports" \in DOMAIN reply.body

\* C5: whatever formats were requested, a success reply whose exports list has
\* no png entry makes the call fail with BharatVizError; no image is returned,
\* no file is written and nothing is displayed.
C5_MissingPngRaises ==
    (/\ InMapCall
     /\ SuccessWithExports
     /\ \A i \in DOMAIN reply.body.exports : reply.body.exports[i].format # "png")
        => /\ RaisedBharatVizError
           /\ files = << >>
           /\ shown = << >>

\* svg was requested, to be saved and shown, and only svg came back
C5_Witness ==
    /\ InMapCall
    /\ SuccessWithExports
    /\ call.formats = << "svg" >>
    /\ call.show
    /\ call.save_path # PyNone
    /\ PIL_AVAILABLE
    /\ MPL_AVAILABLE
    /\ Len(reply.body.exports) = 1
    /\ reply.body.exports[1].format = "svg"
    /\ outcome.kind = "raise"

\* C6 (as claimed): get_metadata requests the single format svg and, when the
\* server answers success with one svg export and a metadata object, returns
\* that object.
C6_GetMetadataReturnsMetadata ==
    (/\ pc = "done"
     /\ call.op = "get_metadata"
     /\ SuccessWithExports
     /\ Len(reply.body.exports) = 1
     /\ reply.body.exports[1].format = "svg"
     /\ "metadata" \in DOMAIN reply.body)
        => /\ Len(posts) = 1
           /\ posts[1].json.formats = << "svg" >>
           /\ outcome = Returned(reply.body.metadata)

\* C7 (as claimed): for a non-empty row-oriented input and valid options the
\* posted data has the length of the input and every record of it has only the
\* recognized keys.
C7_PostedRecordsHaveOnlyRecognizedKeys ==
    (/\ InMapCall
     /\ call.data.type = "list"
     /\ ~FailsValidation(call))
        => /\ posts # << >>
           /\ Len(posts[1].json.data) = Len(call.data.recs)
           /\ \A j \in DOMAIN posts[1].json.data :
                  DOMAIN posts[1].json.data[j] \subseteq Range(RequiredKeys(call))

\* label k heads exactly one column of the table
OccursOnce(columns, k) == Cardinality({p \in DOMAIN columns : columns[p] = k}) = 1

\* the row-oriented list holding the rows of a table whose columns carry each
\* of keys once
RowEquivalent(d, keys) ==
    [recs |-> [i \in 1..Len(d.rows) |->
                  [k \in Range(keys) |->
                      d.rows[i][CHOOSE p \in DOMAIN d.columns : d.columns[p] = k]]],
     type |-> "list"]

\* what the call with arguments c builds: a request body or an error
Built(c) ==
    IF c.op = "generate_districts_map"
    THEN BuildDistrictsRequest(c)
    ELSE BuildStatesRequest(c)

\* C8: for a table whose columns carry each required name once, in any order
\* and among any other columns, the call posts what the same call posts for the
\* row-oriented list of the same rows: the same body, or nothing when that
\* call is rejected.
C8_NamedColumnsPostLikeRows ==
    (/\ InMapCall
     /\ call.data.type = "frame"
     /\ \A i \in DOMAIN RequiredKeys(call) :
            OccursOnce(call.data.columns, RequiredKeys(call)[i]))
        => LET rows == Built([call EXCEPT
                                !.data = RowEquivalent(call.data, RequiredKeys(call))])
           IN  IF rows.ok
               THEN /\ posts # << >>
                    /\ \A i \in DOMAIN posts :
                          posts[i].method = "POST" => posts[i].json = rows.body
               ELSE posts = << >>

\* a table with the columns value, x, state and two rows was posted
C8_Witness ==
    /\ InMapCall
    /\ call.op = "generate_map"
    /\ call.data.type = "frame"
    /\ call.data.columns = << "value", "x", "state" >>
    /\ Len(call.data.rows) = 2
    /\ Len(posts) = 1

\* C9 (as claimed): for a table that lacks a required name and has at least N
\* columns, record i of the posted data takes state from the first column of
\* row i, (district from the second,) and value from the N-th.
C9_PositionalColumnsPosted ==
    (/\ InMapCall
     /\ call.data.type = "frame"
     /\ ~(Range(RequiredKeys(call)) \subseteq Range(call.data.columns))
     /\ Len(call.data.columns) >= Len(RequiredKeys(call))
     /\ ~FailsValidation(call))
        => /\ posts # << >>
           /\ Len(posts[1].json.data) = Len(call.data.rows)
           /\ \A i \in DOMAIN call.data.rows :
                /\ DOMAIN posts[1].json.data[i] = Range(RequiredKeys(call))
                /\ \A n \in DOMAIN RequiredKeys(call) :
                      posts[1].json.data[i][RequiredKeys(call)[n]]
                          = call.data.rows[i][n]

\* the position of the first png entry of an exports list
FirstPng(exports) ==
    CHOOSE i \in DOMAIN exports :
        /\ exports[i].format = "png"
        /\ \A j \in 1..(i - 1) : exports[j].format # "png"

\* C10: when a call returns, the reply is a success body holding a png
\* export, and when the first png export is the base64 encoding of bytes B the
\* image returned is built from exactly B; with return_all the result is that
\* image with the reply's exports list and metadata object unchanged, without
\* return_all it is the image alone.
C10_ReturnedImageRoundTrip ==
    (InMapCall /\ pc = "done" /\ outcome.kind = "return") =>
        /\ SuccessWithExports
        /\ \E i \in DOMAIN reply.body.exports : reply.body.exports[i].format = "png"
        /\ LET image == IF call.return_all THEN outcome.value.image
                        ELSE outcome.value
           IN  /\ call.return_all =>
                     /\ "metadata" \in DOMAIN reply.body
                     /\ outcome.value = [exports |-> reply.body.exports,
                                         image |-> image,
                                         metadata |-> reply.body.metadata]
               /\ \A B \in ImageBytes \cup OtherBytes :
                     B64Encode(B) = reply.body.exports[FirstPng(reply.body.exports)].data
                         => image = [bytes |-> B]

\* a call with return_all returned on a reply holding two png exports, the
\* encodings of two different images
C10_Witness ==
    /\ InMapCall
    /\ pc = "done"
    /\ outcome.kind = "return"
    /\ call.return_all
    /\ Len(reply.body.exports) = 2
    /\ reply.body.exports[1].format = "png"
    /\ reply.body.exports[2].format = "png"
    /\ reply.body.exports[1].data # reply.body.exports[2].data
    /\ \A i \in 1..2 :
          \E B \in ImageBytes : reply.body.exports[i].data = B64Encode(B)

\* the reply is a parsed body whose success flag is false or absent
SuccessFalseOrAbsent ==
    /\ pc = "done"
    /\ reply.kind = "json"
    /\ ("success" \notin DOMAIN reply.body \/ ~reply.body.success)

\* C11: when the parsed body has success false or absent, the call fails with
\* BharatVizError, and when the body carries an error object with a message
\* the error's message contains that message verbatim.
C11_ServerErrorMessageSurfaced ==
    (InMapCall /\ SuccessFalseOrAbsent) =>
        /\ RaisedBharatVizError
        /\ ("error" \in DOMAIN reply.body /\ "message" \in DOMAIN reply.body.error)
              => Contains(outcome.message, reply.body.error.message)

\* a districts call received {success: false, error: {message: "bad state name"}}
C11_Witness ==
    /\ InMapCall
    /\ call.op = "generate_districts_map"
    /\ SuccessFalseOrAbsent
    /\ reply.body = [error |-> [message |-> "bad state name"], success |-> FALSE]
    /\ outcome.kind = "raise"

\* C16: during and after every generate_map or generate_districts_map call,
\* successful or failing, the caller's data object is what was passed in: the
\* same list of the same records, or a table with the same column names in the
\* same order and the same cells.
C16_CallerInputUnchanged ==
    InMapCall => caller_data = call.data

\* a table without the required names was renamed by position and posted
C16_Witness ==
    /\ InMapCall
    /\ pc = "done"
    /\ call.data.type = "frame"
    /\ call.data.columns = << "x", "district", "x" >>
    /\ Len(call.data.rows) = 2
    /\ Len(posts) = 1
    /\ posts[1].json.data[1] = [state |-> 11, value |-> 12]
    /\ caller_data.columns = << "x", "district", "x" >>

\* the base URL every constructor argument of the model stands for
BaseUrl == << "http://bharatviz.saketlab.in" >>

\* C17 (as claimed): every POST of a generate_map call goes to
\* {baseUrl}/api/v1/states/map with a timeout of 30 seconds and every POST of a
\* generate_districts_map call to {baseUrl}/api/v1/districts/map with a timeout
\* of 60 seconds, baseUrl being the constructor argument without its trailing
\* slashes; the districts timeout is the longer one.
C17_EndpointAndTimeout ==
    /\ DistrictsTimeout > StatesTimeout
    /\ \A i \in {j \in DOMAIN posts : posts[j].method = "POST"} :
          IF call.op = "generate_districts_map"
          THEN /\ posts[i].url = BaseUrl \o << "/api/v1/districts/map" >>
               /\ posts[i].timeout = 60
          ELSE /\ posts[i].url = BaseUrl \o << "/api/v1/states/map" >>
               /\ posts[i].timeout = 30

\* C20 (as claimed): whenever a generate_map or generate_districts_map call
\* ends in an error, no file has been written during the call, whatever
\* save_path, show and the available libraries are.
C20_FailingCallWritesNoFile ==
    (InMapCall /\ pc = "done" /\ outcome.kind = "raise") => files = << >>

\* the position of the only column of the table labelled k
ColumnOf(df, k) == CHOOSE p \in DOMAIN df.columns : df.columns[p] = k

\* C18 (as claimed): from_dict returns one {state: key, value: number} record
\* per entry of the dictionary, in order; from_dataframe returns one record
\* per row, in order, with exactly the keys state and value, taken from the
\* named state and value columns or, for a name not given, from the first
\* (state) and the second (value) column.
C18_ConversionHelpers ==
    /\ (pc = "done" /\ call.op = "from_dict") =>
          /\ outcome.kind = "return"
          /\ Len(outcome.value) = Len(call.data.items)
          /\ \A i \in DOMAIN call.data.items :
                outcome.value[i] = [state |-> call.data.items[i][1],
                                    value |-> call.data.items[i][2]]
    /\ (/\ pc = "done"
        /\ call.op = "from_dataframe"
        /\ call.state_col # PyNone => OccursOnce(call.data.columns, call.state_col)
        /\ call.value_col # PyNone => OccursOnce(call.data.columns, call.value_col)
        /\ Len(call.data.columns) >= 2
        /\ call.state_col # PyNone => call.state_col # call.data.columns[2]
        /\ call.value_col # PyNone => call.value_col # call.data.columns[1]
        /\ call.state_col = PyNone \/ call.state_col # call.value_col)
          => LET s == IF call.state_col = PyNone THEN 1
                      ELSE ColumnOf(call.data, call.state_col)
                 v == IF call.value_col = PyNone THEN 2
                      ELSE ColumnOf(call.data, call.value_col)
             IN  /\ outcome.kind = "return"
                 /\ Len(outcome.value) = Len(call.data.rows)
                 /\ \A i \in DOMAIN call.data.rows :
                       outcome.value[i] = [state |-> call.data.rows[i][s],
                                           value |-> call.data.rows[i][v]]

\* the byte strings the exports of the helpers' replies encode
ExportBytes == ImageBytes \cup {<< 60 >>, << 37, 80, 68 >>}

\* the reply of a save_all_formats call is a success body holding exactly one
\* png, one svg and one pdf export, the png being an image file
ThreeExportsReply ==
    /\ reply.kind = "json"
    /\ "success" \in DOMAIN reply.body
    /\ reply.body.success
    /\ "exports" \in DOMAIN reply.body
    /\ Len(reply.body.exports) = 3
    /\ {reply.body.exports[i].format : i \in 1..3} = {"png", "svg", "pdf"}
    /\ \A i \in 1..3 :
          \E B \in ExportBytes :
              /\ reply.body.exports[i].data = B64Encode(B)
              /\ reply.body.exports[i].format = "png" => B \in ImageBytes

\* C12 (as claimed): save_all_formats runs the pipeline once, requesting png,
\* svg and pdf with return_all, and on a success reply holding the three
\* exports (the libraries its options need being installed) it writes exactly
\* {basename}.png, {basename}.svg and {basename}.pdf, each holding the decoded
\* bytes of the export of that format, and no other file.
C12_SaveAllFormatsWritesThreeFiles ==
    (/\ helper.op = "save_all_formats"
     /\ pc = "done"
     /\ ThreeExportsReply
     /\ PIL_AVAILABLE
     /\ call.show => MPL_AVAILABLE)
        => /\ Len(helper.posts) = 1
           /\ helper.posts[1].json.formats = << "png", "svg", "pdf" >>
           /\ call.return_all
           /\ helper.outcome.kind = "return"
           /\ DOMAIN helper.files =
                  {FileName(helper.basename, f) : f \in {"png", "svg", "pdf"}}
           /\ \A i \in 1..3 :
                 B64Encode(helper.files[FileName(helper.basename,
                                                 reply.body.exports[i].format)])
                     = reply.body.exports[i].data
           /\ call.save_path = PyNone => files = << >>

\* C13 (as claimed): a helper stops at the first failure.  When the inner call
\* of compare_scales for the scale at position k fails, that failure is the
\* helper's, the POSTs issued are those of the positions before k and, if the
\* failure came after validation, of k, in order, and nothing is displayed;
\* when the inner call of save_all_formats fails, that failure is the helper's
\* and no file has been written.
C13_FirstFailureAborts ==
    /\ (/\ helper.op = "compare_scales"
        /\ pc = "done"
        /\ InMapCall
        /\ outcome.kind = "raise")
          => /\ helper.outcome = outcome
             /\ Len(helper.posts) = (helper.idx - 1) + Len(posts)
             /\ \A i \in DOMAIN helper.posts :
                   helper.posts[i].json.colorScale = helper.scales[i]
             /\ ~helper.shown
    /\ (/\ helper.op = "save_all_formats"
        /\ pc = "done"
        /\ outcome.kind = "raise")
          => /\ helper.outcome = outcome
             /\ helper.files = << >>
             /\ files = << >>

\* the inner calls of compare_scales made so far all came back with an image
EveryCallSucceeded ==
    /\ PIL_AVAILABLE
    /\ \A i \in DOMAIN helper.replies :
          /\ helper.replies[i].kind = "json"
          /\ \E B \in ImageBytes :
                helper.replies[i].body.exports[1].data = B64Encode(B)

\* C14 (as claimed): for a list of n >= 1 valid scales, or the default six,
\* when every inner call succeeds compare_scales has made one single-format
\* call per scale in list order, the grid has ceil(n/3) rows of 3 cells, cell
\* i shows the image of the scale at position i, and the cells from n on are
\* empty and hidden; so for n = 1 and for n no multiple of 3 too.
C14_CompareScalesGrid ==
    (/\ helper.op = "compare_scales"
     /\ pc = "done"
     /\ Len(helper.scales) >= 1
     /\ Len(helper.replies) = Len(helper.scales)
     /\ EveryCallSucceeded)
        => LET n == Len(helper.scales)
               rows == CHOOSE m \in 0..n : 3 * m >= n /\ 3 * (m - 1) < n
           IN  /\ helper.outcome.kind = "return"
               /\ helper.shown
               /\ Len(helper.posts) = n
               /\ \A i \in 1..n :
                     /\ helper.posts[i].json.colorScale = helper.scales[i]
                     /\ helper.posts[i].json.formats = << "png" >>
               /\ Len(helper.axes) = rows * 3
               /\ \A i \in 1..n :
                     /\ helper.axes[i].type = "axes"
                     /\ B64Encode(helper.axes[i].image.bytes)
                            = helper.replies[i].body.exports[1].data
               /\ \A i \in (n + 1)..(rows * 3) :
                     /\ helper.axes[i].image = NoValue
                     /\ helper.axes[i].off

\* C15: the client's base URL and its two endpoint URLs are those the
\* constructor set and no step of any call changes them; when a call has
\* returned nothing of it is left for the next call to read.
C15_ConfigurationNeverChanges ==
    /\ [](/\ api_url = BaseUrl
          /\ states_endpoint = BaseUrl \o << "/api/v1/states/map" >>
          /\ districts_endpoint = BaseUrl \o << "/api/v1/districts/map" >>)
    /\ [][/\ api_url' = api_url
          /\ states_endpoint' = states_endpoint
          /\ districts_endpoint' = districts_endpoint
          /\ pc' = "idle" =>
                /\ call' = NoValue
                /\ posts' = << >>
                /\ reply' = NoReply
                /\ outcome' = NoValue
                /\ files' = << >>
                /\ shown' = << >>
                /\ log' = << >>
                /\ caller_data' = NoValue
                /\ helper' = NoHelper]_vars

\* compare_scales has issued its third POST
C15_Witness ==
    /\ helper.op = "compare_scales"
    /\ pc = "helper_awaiting"
    /\ Len(helper.posts) = 3
    /\ helper.posts[3].url = states_endpoint
    /\ api_url = BaseUrl

\* C19: without the image library, a call that received a success reply
\* holding a png export fails with BharatVizError before decoding anything,
\* writes no file and displays nothing; without the plotting library,
\* compare_scales fails with BharatVizError before any POST.
C19_MissingCapabilityRaises ==
    /\ (/\ InMapCall
        /\ SuccessWithExports
        /\ \E i \in DOMAIN reply.body.exports : reply.body.exports[i].format = "png"
        /\ ~PIL_AVAILABLE)
          => /\ RaisedBharatVizError
             /\ files = << >>
             /\ shown = << >>
             /\ ~Contains(log, "decode")
    /\ (helper.op = "compare_scales" /\ ~MPL_AVAILABLE)
          => /\ pc = "done"
             /\ helper.outcome.kind = "raise"
             /\ helper.outcome.error = "BharatVizError"
             /\ helper.posts = << >>
             /\ posts = << >>

\* compare_scales was called on a non-empty list without the plotting library
C19_Witness ==
    /\ helper.op = "compare_scales"
    /\ pc = "done"
    /\ ~MPL_AVAILABLE
    /\ call.data.recs # << >>
    /\ helper.outcome.kind = "raise"

\* the place of an event in the order validation, POST, body parse, success
\* check, PNG lookup, decode, save, display, end of the call
EventRank(e) ==
    CASE e = "validate" -> 1
      [] e = "post" -> 2
      [] e = "parse" -> 3
      [] e = "success_check" -> 4
      [] e = "png_lookup" -> 5
      [] e = "decode" -> 6
      [] e = "save" -> 7
      [] e = "show" -> 8
      [] e = "return" -> 9
      [] e = "raise" -> 9

\* C21 (as claimed): in every generate_map or generate_districts_map call the
\* events come in the order validation, POST, body parse, success check, PNG
\* lookup, decode, save, display, return; a file is written or an image
\* displayed only when the single POST came back with a JSON body whose
\* success flag is true and which holds a png export, every earlier stage
\* having run; and the write to save_path comes before the display.
C21_EventOrder ==
    InMapCall =>
        /\ \A i, j \in DOMAIN log :
              i < j => EventRank(log[i]) < EventRank(log[j])
        /\ (files # << >>) <=> Contains(log, "save")
        /\ (shown # << >>) <=> Contains(log, "show")
        /\ (files # << >> \/ shown # << >>) =>
              /\ Len(posts) = 1
              /\ SuccessWithExports
              /\ \E i \in DOMAIN reply.body.exports :
                    reply.body.exports[i].format = "png"
              /\ SubSeq(log, 1, 6) = << "validate", "post", "parse",
                                        "success_check", "png_lookup", "decode" >>
        /\ (pc = "done" /\ outcome.kind = "return") =>
              log = << "validate", "post", "parse", "success_check",
                       "png_lookup", "decode" >>
                    \o (IF PathIsGiven(call.save_path) THEN << "save" >> ELSE << >>)
                    \o (IF call.show THEN << "show" >> ELSE << >>)
                    \o << "return" >>

\* C22 (as claimed): for every table with at least two columns,
\* generate_map(table) posts the data records that
\* generate_map(from_dataframe(table)) posts, the conversion being made with
\* no column names given; so too for a table with the columns value, state.
C22_DirectTableLikeDefaultConversion ==
    (/\ InMapCall
     /\ call.op = "generate_map"
     /\ call.data.type = "frame"
     /\ Len(call.data.columns) >= 2)
        => LET converted == from_dataframe(call.data, PyNone, PyNone)
           IN  /\ converted.kind = "return"
               /\ LET via == BuildStatesRequest(
                                 [call EXCEPT !.data = [recs |-> converted.value,
                                                        type |-> "list"]])
                  IN  IF via.ok
                      THEN /\ posts # << >>
                           /\ posts[1].json.data = via.body.data
                      ELSE posts = << >>

====
